---- MODULE Spec2Model ----
(***************************************************************************)
(* A model of n8n-mta/workflow-filter.py: the workflow graph engine        *)
(* (WorkflowEngine, the Trigger / Filter / Action nodes) and the process   *)
(* entry point main() with EmailProcessor around it.                       *)
(*                                                                         *)
(* Python values are modelled as follows.  A str that is only compared     *)
(* for equality is a TLA+ string; a str that is searched, lowered or       *)
(* parsed is a sequence of one-character strings.  A value that may be     *)
(* None is tagged: None, or Str(v).  A dict is a function from key names   *)
(* to values, a missing key being a name outside its DOMAIN.               *)
(***************************************************************************)
EXTENDS Integers, Sequences, FiniteSets, TLC

VARIABLES
    workflow_config,  \* the configuration handed to WorkflowEngine.__init__
    email_data,       \* the record handed to WorkflowEngine.execute
    nodes,            \* WorkflowEngine.nodes, in dict (insertion) order
    stack,            \* the chain of nested _execute_node calls, innermost last
    result,           \* what WorkflowEngine.execute returned
    pc,               \* position of the engine run
    calls,            \* number of _execute_node calls made so far
    executed,         \* history: the node.execute calls, in order
    decisions,        \* history: the _should_follow_connection calls, in order
    mpc,              \* position of main()
    stdin,            \* the text on the input stream
    email_content,    \* main's local email_content, Unbound before its assignment
    config_file,      \* what is at /etc/postfix/n8n-workflow.json
    workflow_engine,  \* EmailProcessor.workflow_engine
    stdout,           \* what main printed, in order
    exit_status,      \* the status the process ended with, Running before
    quarantine_files, \* the files written to a quarantine folder
    faults            \* history: the steps of main at which an exception was raised

engine_vars == <<workflow_config, email_data, nodes, stack, result, pc,
                 calls, executed, decisions>>
main_vars == <<mpc, stdin, email_content, config_file, workflow_engine, stdout,
               exit_status, quarantine_files, faults>>
main_vars_but_mpc == <<stdin, email_content, config_file, workflow_engine, stdout,
                       exit_status, quarantine_files, faults>>
vars == <<engine_vars, main_vars>>

(***************************************************************************)
(* Bounds of the model.                                                    *)
(***************************************************************************)
MaxConns == 2
MaxEdges == 3
MaxConds == 2
MaxDepth == 7

(***************************************************************************)
(* Python values.                                                          *)
(***************************************************************************)
None == [py |-> "None"]
Str(s) == [py |-> "str", v |-> s]

\* dict.get(key) / dict.get(key, default) of a configuration entry whose
\* values are strings
Get(d, key) == IF key \in DOMAIN d THEN Str(d[key]) ELSE None

\* d[key] = value on a copy of d
SetItem(d, key, value) ==
    [k \in DOMAIN d \cup {key} |-> IF k = key THEN value ELSE d[k]]

\* bool(x) of a tagged value that is None or a str held as a TLA+ string
Truthy(x) == x.py = "str" /\ x.v # ""

Last(s) == s[Len(s)]
ButLast(s) == SubSeq(s, 1, Len(s) - 1)

(***************************************************************************)
(* str operations, on sequences of one-character strings.                  *)
(***************************************************************************)
UpperChars == <<"A","B","C","D","E","F","G","H","I","J","K","L","M",
                "N","O","P","Q","R","S","T","U","V","W","X","Y","Z">>
LowerChars == <<"a","b","c","d","e","f","g","h","i","j","k","l","m",
                "n","o","p","q","r","s","t","u","v","w","x","y","z">>
DigitChars == <<"0","1","2","3","4","5","6","7","8","9">>

LowerChar(c) ==
    IF \E i \in 1..26 : UpperChars[i] = c
    THEN LowerChars[CHOOSE i \in 1..26 : UpperChars[i] = c]
    ELSE c

\* a lower() that leaves the case as it is
lower_keeps_case(s) == s

\* str.lower()
lower(s) == [i \in 1..Len(s) |-> LowerChar(s[i])]

\* needle in hay
contains(needle, hay) ==
    \E i \in 0..(Len(hay) - Len(needle)) : SubSeq(hay, i + 1, i + Len(needle)) = needle

\* s.startswith(prefix), s.endswith(suffix)
startswith(s, prefix) ==
    Len(prefix) <= Len(s) /\ SubSeq(s, 1, Len(prefix)) = prefix
endswith(s, suffix) ==
    Len(suffix) <= Len(s) /\ SubSeq(s, Len(s) - Len(suffix) + 1, Len(s)) = suffix

IsDigit(c) == \E i \in 1..10 : DigitChars[i] = c
DigitValue(c) == (CHOOSE i \in 1..10 : DigitChars[i] = c) - 1

RECURSIVE DecimalValue(_)
DecimalValue(s) ==
    IF s = <<>> THEN 0 ELSE 10 * DecimalValue(ButLast(s)) + DigitValue(Last(s))

\* a float() that takes a text that is no number as 0
float_lenient(s) ==
    LET body == IF s # <<>> /\ s[1] \in {"-", "+"} THEN Tail(s) ELSE s
        good == body # <<>> /\ \A i \in 1..Len(body) : IsDigit(body[i])
    IN  IF ~good THEN [ok |-> TRUE, val |-> 0]
        ELSE [ok |-> TRUE,
              val |-> IF s[1] = "-" THEN 0 - DecimalValue(body) ELSE DecimalValue(body)]

\* float(s) for the literals the model feeds it: an optional sign and decimal
\* digits; every other text makes float() raise ValueError (ok = FALSE)
float(s) ==
    LET body == IF s # <<>> /\ s[1] \in {"-", "+"} THEN Tail(s) ELSE s
        good == body # <<>> /\ \A i \in 1..Len(body) : IsDigit(body[i])
    IN  IF ~good THEN [ok |-> FALSE, val |-> 0]
        ELSE [ok |-> TRUE,
              val |-> IF s[1] = "-" THEN 0 - DecimalValue(body) ELSE DecimalValue(body)]

RECURSIVE IntToStr(_)
\* str(n) of a non-negative int
IntToStr(n) ==
    IF n < 10 THEN <<DigitChars[n + 1]>>
    ELSE Append(IntToStr(n \div 10), DigitChars[(n % 10) + 1])

(***************************************************************************)
(* FilterNode.                                                             *)
(***************************************************************************)
field_map == [sender |-> "from", recipient |-> "to", subject |-> "subject",
              body |-> "body", size |-> "size"]

\* the attributes of a record that hold a str
StrKeys == {"from", "to", "subject", "date", "message_id", "body", "timestamp"}

\* FilterNode._get_field_value: str(data.get(actual_field, '')).  The fields a
\* condition of the model names are the str attributes, size and filter_passed.
get_field_value(data, field) ==
    IF field = None THEN <<>>
    ELSE LET actual_field ==
                 IF field.v \in DOMAIN field_map THEN field_map[field.v] ELSE field.v
         IN  IF actual_field \notin DOMAIN data THEN <<>>
             ELSE CASE actual_field \in StrKeys -> data[actual_field]
                    [] actual_field = "size" -> IntToStr(data[actual_field])
                    [] actual_field = "filter_passed" ->
                           IF data[actual_field] THEN <<"T","r","u","e">>
                           ELSE <<"F","a","l","s","e">>

\* re.search(pattern, text, re.IGNORECASE) for the patterns the model feeds it:
\* a literal text, optionally behind the inline flag (?i); a pattern that ends
\* in an open group or a lone backslash does not compile (ok = FALSE)
re_search(pattern, text) ==
    LET flag == <<"(", "?", "i", ")">>
        body == IF startswith(pattern, flag)
                THEN SubSeq(pattern, 5, Len(pattern)) ELSE pattern
        bad  == body # <<>> /\ Last(body) \in {"(", "[", "\\"}
    IN  IF bad THEN [ok |-> FALSE, val |-> FALSE]
        ELSE [ok |-> TRUE, val |-> contains(lower(body), lower(text))]

\* the try block of FilterNode._evaluate_condition: raised = an exception left it
try_evaluate_condition(field_value, operator, value) ==
    LET Raise == [raised |-> TRUE, val |-> FALSE]
        Return(b) == [raised |-> FALSE, val |-> b]
        \* value.lower() raises AttributeError, re.search and float() raise
        \* TypeError, when the condition has no value
        NoValue == value = None
    IN  CASE operator = Str("equals") ->
                 IF NoValue THEN Raise ELSE Return(lower(field_value) = lower(value.v))
          [] operator = Str("contains") ->
                 IF NoValue THEN Raise
                 ELSE Return(contains(lower(value.v), lower(field_value)))
          [] operator = Str("starts_with") ->
                 IF NoValue THEN Raise
                 ELSE Return(startswith(lower(field_value), lower(value.v)))
          [] operator = Str("ends_with") ->
                 IF NoValue THEN Raise
                 ELSE Return(endswith(lower(field_value), lower(value.v)))
          [] operator = Str("regex") ->
                 IF NoValue THEN Raise
                 ELSE LET m == re_search(value.v, field_value)
                      IN  IF m.ok THEN Return(m.val) ELSE Raise
          [] operator = Str("not_equals") ->
                 IF NoValue THEN Raise ELSE Return(lower(field_value) # lower(value.v))
          [] operator = Str("not_contains") ->
                 IF NoValue THEN Raise
                 ELSE Return(~contains(lower(value.v), lower(field_value)))
          [] operator = Str("greater_than") ->
                 LET a == float(field_value)
                 IN  IF ~a.ok \/ NoValue THEN Raise
                     ELSE LET b == float(value.v)
                          IN  IF b.ok THEN Return(a.val > b.val) ELSE Raise
          [] operator = Str("less_than") ->
                 LET a == float(field_value)
                 IN  IF ~a.ok \/ NoValue THEN Raise
                     ELSE LET b == float(value.v)
                          IN  IF b.ok THEN Return(a.val < b.val) ELSE Raise
          [] OTHER -> Return(FALSE)

\* FilterNode._evaluate_condition: except Exception: return False
evaluate_condition(field_value, operator, value) ==
    LET r == try_evaluate_condition(field_value, operator, value)
    IN  IF r.raised THEN FALSE ELSE r.val

RECURSIVE all(_)
\* all(r['result'] for r in results): stops at the first false result
all(results) ==
    IF results = <<>> THEN TRUE
    ELSE IF ~Head(results).result THEN FALSE ELSE all(Tail(results))

RECURSIVE any(_)
\* any(r['result'] for r in results): stops at the first true result
any(results) ==
    IF results = <<>> THEN FALSE
    ELSE IF Head(results).result THEN TRUE ELSE any(Tail(results))

\* FilterNode.__init__: self.conditions = config.get('conditions', [])
FilterConditions(config) ==
    IF "conditions" \in DOMAIN config THEN config.conditions ELSE <<>>

\* the loop of FilterNode.execute: one filter_results entry per condition
filter_results(config, data) ==
    LET conditions == FilterConditions(config)
    IN  [i \in 1..Len(conditions) |->
            LET field    == Get(conditions[i], "field")
                operator == Get(conditions[i], "operator")
                value    == Get(conditions[i], "value")
            IN  [field |-> field, operator |-> operator, value |-> value,
                 result |-> evaluate_condition(get_field_value(data, field),
                                               operator, value)]]

\* a default of 'OR' for the logic mode
FilterLogic_default_or(config) == IF "logic" \in DOMAIN config THEN config.logic ELSE "OR"

\* logic = self.config.get('logic', 'AND')
FilterLogic(config) == IF "logic" \in DOMAIN config THEN config.logic ELSE "AND"

\* an execute that starts from an empty record, not from data.copy()
FilterNode_execute_fresh(config, data) ==
    LET results == filter_results(config, data)
        passed  == IF FilterLogic(config) = "AND" THEN all(results) ELSE any(results)
    IN  [filter_results |-> results, filter_passed |-> passed]

\* FilterNode.execute
FilterNode_execute(config, data) ==
    LET results == filter_results(config, data)
        passed  == IF FilterLogic(config) = "AND" THEN all(results) ELSE any(results)
    IN  SetItem(SetItem(data, "filter_results", results), "filter_passed", passed)

(***************************************************************************)
(* TriggerNode and ActionNode.                                             *)
(***************************************************************************)
\* TriggerNode.execute: logs and returns data
TriggerNode_execute(config, data) == data

\* config.get(key, default) of a plain value
GetOr(config, key, default) == IF key \in DOMAIN config THEN config[key] ELSE default

\* an ActionNode.execute whose unknown action types fall back to accept
ActionNode_execute_fallback(config, data) ==
    LET action_type == Get(config, "action_type")
        With(action, key, value) == SetItem(SetItem(data, "action", action), key, value)
    IN  CASE action_type = Str("reject") ->
                 With("reject", "reject_reason",
                      GetOr(config, "reason", "Message rejected by filter"))
          [] action_type = Str("quarantine") ->
                 With("quarantine", "quarantine_folder",
                      GetOr(config, "folder", "/var/mail/quarantine"))
          [] action_type = Str("forward") ->
                 With("forward", "forward_to", Get(config, "forward_to"))
          [] action_type = Str("modify_headers") ->
                 With("modify_headers", "header_modifications",
                      GetOr(config, "headers", <<>>))
          [] action_type = Str("accept") ->
                 SetItem(data, "action", "accept")
          [] action_type = Str("tag") ->
                 With("tag", "tags", GetOr(config, "tags", <<>>))
          [] OTHER -> SetItem(data, "action", "accept")

\* an ActionNode.execute that sets action to accept whatever its action_type
ActionNode_execute_accepts(config, data) == SetItem(data, "action", "accept")

\* ActionNode.execute
ActionNode_execute(config, data) ==
    LET action_type == Get(config, "action_type")
        With(action, key, value) == SetItem(SetItem(data, "action", action), key, value)
    IN  CASE action_type = Str("reject") ->
                 With("reject", "reject_reason",
                      GetOr(config, "reason", "Message rejected by filter"))
          [] action_type = Str("quarantine") ->
                 With("quarantine", "quarantine_folder",
                      GetOr(config, "folder", "/var/mail/quarantine"))
          [] action_type = Str("forward") ->
                 With("forward", "forward_to", Get(config, "forward_to"))
          [] action_type = Str("modify_headers") ->
                 With("modify_headers", "header_modifications",
                      GetOr(config, "headers", <<>>))
          [] action_type = Str("accept") ->
                 SetItem(data, "action", "accept")
          [] action_type = Str("tag") ->
                 With("tag", "tags", GetOr(config, "tags", <<>>))
          [] OTHER -> data

\* node.execute(data), dispatched on the class of the node
node_execute(node, data) ==
    CASE node.node_type = "trigger" -> TriggerNode_execute(node.config, data)
      [] node.node_type = "filter"  -> FilterNode_execute(node.config, data)
      [] node.node_type = "action"  -> ActionNode_execute(node.config, data)

(***************************************************************************)
(* WorkflowEngine._build_workflow.  self.nodes is a dict: it is held as    *)
(* the sequence of its values in insertion order.                          *)
(***************************************************************************)
NodeTypes == {"trigger", "filter", "action"}

nodes_config(config) == IF "nodes" \in DOMAIN config THEN config.nodes ELSE <<>>
connections_config(config) ==
    IF "connections" \in DOMAIN config THEN config.connections ELSE <<>>

\* node_config['id'], node_config['type'], conn['source'], conn['target'] raise
\* KeyError on an entry that lacks the key
build_raises(config) ==
    \/ \E i \in 1..Len(nodes_config(config)) :
           {"id", "type"} \ DOMAIN nodes_config(config)[i] # {}
    \/ \E i \in 1..Len(connections_config(config)) :
           {"source", "target"} \ DOMAIN connections_config(config)[i] # {}

NodeIds(ns) == {ns[i].node_id : i \in 1..Len(ns)}
NodeOf(ns, id) == ns[CHOOSE i \in 1..Len(ns) : ns[i].node_id = id]

\* self.nodes[node_id] = node: a known key keeps its place in the dict
dict_set(ns, node) ==
    IF node.node_id \in NodeIds(ns)
    THEN [i \in 1..Len(ns) |-> IF ns[i].node_id = node.node_id THEN node ELSE ns[i]]
    ELSE Append(ns, node)

RECURSIVE build_nodes(_, _)
\* the first loop of _build_workflow, over the first k node entries
build_nodes(cfgs, k) ==
    IF k = 0 THEN <<>>
    ELSE LET ns == build_nodes(cfgs, k - 1)
             node_config == cfgs[k]
         IN  IF node_config.type \in NodeTypes
             THEN dict_set(ns, [node_id |-> node_config.id,
                                node_type |-> node_config.type,
                                config |-> node_config,
                                connections |-> <<>>])
             ELSE ns

\* an add_connection that puts the new connection first
add_connection_prepends(node, target_node, condition) ==
    [node EXCEPT !.connections =
        <<[target |-> target_node, condition |-> condition]>> \o @]

\* WorkflowNode.add_connection
add_connection(node, target_node, condition) ==
    [node EXCEPT !.connections =
        Append(@, [target |-> target_node, condition |-> condition])]

RECURSIVE build_connections(_, _, _)
\* the second loop of _build_workflow, over the first k connection entries
build_connections(ns, conns, k) ==
    IF k = 0 THEN ns
    ELSE LET prev == build_connections(ns, conns, k - 1)
             conn == conns[k]
         IN  IF conn.source \in NodeIds(prev)
             THEN [i \in 1..Len(prev) |->
                     IF prev[i].node_id = conn.source
                     THEN add_connection(prev[i], conn.target, Get(conn, "condition"))
                     ELSE prev[i]]
             ELSE prev

\* WorkflowEngine._build_workflow
build_workflow(config) ==
    build_connections(build_nodes(nodes_config(config), Len(nodes_config(config))),
                      connections_config(config), Len(connections_config(config)))

(***************************************************************************)
(* WorkflowEngine.execute and _execute_node.                               *)
(***************************************************************************)
\* a test that takes only a missing label (condition is None) as unconditional
should_follow_connection_is_none(data, condition) ==
    LET filter_passed == "filter_passed" \in DOMAIN data /\ data["filter_passed"]
    IN  IF condition = None THEN TRUE
        ELSE IF condition = Str("true") /\ filter_passed THEN TRUE
        ELSE IF condition = Str("false") /\ ~filter_passed THEN TRUE
        ELSE FALSE

\* a test that follows 'false' only when filter_passed is present and False
should_follow_connection_is_false(data, condition) ==
    LET present       == "filter_passed" \in DOMAIN data
        filter_passed == present /\ data["filter_passed"]
    IN  IF ~Truthy(condition) THEN TRUE
        ELSE IF condition = Str("true") /\ filter_passed THEN TRUE
        ELSE IF condition = Str("false") /\ present /\ ~filter_passed THEN TRUE
        ELSE FALSE

\* WorkflowEngine._should_follow_connection
should_follow_connection(data, condition) ==
    LET filter_passed == "filter_passed" \in DOMAIN data /\ data["filter_passed"]
    IN  IF ~Truthy(condition) THEN TRUE
        ELSE IF condition = Str("true") /\ filter_passed THEN TRUE
        ELSE IF condition = Str("false") /\ ~filter_passed THEN TRUE
        ELSE FALSE

\* a search for the trigger that has no break: the last node of type trigger
trigger_node_last(ns) ==
    ns[CHOOSE i \in 1..Len(ns) :
          /\ ns[i].node_type = "trigger"
          /\ \A j \in (i + 1)..Len(ns) : ns[j].node_type # "trigger"]

\* the loop of execute that looks for the trigger: the first node of type trigger
HasTrigger(ns) == \E i \in 1..Len(ns) : ns[i].node_type = "trigger"
trigger_node(ns) ==
    ns[CHOOSE i \in 1..Len(ns) :
          /\ ns[i].node_type = "trigger"
          /\ \A j \in 1..(i - 1) : ns[j].node_type # "trigger"]

\* one call of _execute_node: phase "call" before the visited test, "loop" while
\* the connections are followed (i is the index of the next connection)
Frame(cid, node_id, data, visited) ==
    [cid |-> cid, node |-> node_id, data |-> data, visited |-> visited,
     result |-> data, i |-> 1, phase |-> "call"]

NotReturned == [none |-> TRUE]

Top == Last(stack)
TopNode == NodeOf(nodes, Top.node)
TopConnection == TopNode.connections[Top.i]

\* a loop that calls _execute_node on the target and drops what it returns
Return_discards(value) ==
    IF Len(stack) = 1
    THEN /\ stack' = <<>>
         /\ result' = value
         /\ pc' = "returned"
    ELSE /\ stack' = Append(ButLast(ButLast(stack)),
                           [stack[Len(stack) - 1] EXCEPT !.i = @ + 1])
         /\ UNCHANGED <<result, pc>>

\* return value from the innermost call: to execute's caller, or into the
\* loop of the calling _execute_node (result = self._execute_node(...))
Return(value) ==
    IF Len(stack) = 1
    THEN /\ stack' = <<>>
         /\ result' = value
         /\ pc' = "returned"
    ELSE /\ stack' = Append(ButLast(ButLast(stack)),
                           [stack[Len(stack) - 1] EXCEPT !.result = value, !.i = @ + 1])
         /\ UNCHANGED <<result, pc>>

\* a recursive call that receives a fresh set
visited_copy_empty(visited) == {}

\* a recursive call that receives the set itself, not a copy: one set for the
\* whole traversal, holding every node executed so far
visited_copy_shared(visited) == {executed[k].node : k \in 1..Len(executed)}

\* the visited set a recursive call receives: visited.copy()
visited_copy(visited) == visited

\* a visited set that is never added to
visited_add_forgets(visited, node_id) == visited

\* the visited set of a call once it has passed the test: visited.add(node_id)
visited_add(visited, node_id) == visited \cup {node_id}

\* WorkflowEngine.__init__
WorkflowEngine_init ==
    /\ pc = "init"
    /\ ~build_raises(workflow_config)
    /\ nodes' = build_workflow(workflow_config)
    /\ pc' = "ready"
    /\ UNCHANGED <<workflow_config, email_data, stack, result, calls, executed, decisions>>
    /\ UNCHANGED main_vars

\* an execute that hands the message data back when it finds no trigger
execute_no_trigger_returns_data ==
    /\ pc = "ready"
    /\ ~HasTrigger(nodes)
    /\ result' = email_data
    /\ pc' = "returned"
    /\ UNCHANGED <<workflow_config, email_data, nodes, stack, calls, executed, decisions>>
    /\ UNCHANGED main_vars

\* execute: no trigger node found
execute_no_trigger ==
    /\ pc = "ready"
    /\ ~HasTrigger(nodes)
    /\ result' = [action |-> "accept", error |-> "No trigger node"]
    /\ pc' = "returned"
    /\ UNCHANGED <<workflow_config, email_data, nodes, stack, calls, executed, decisions>>
    /\ UNCHANGED main_vars

\* execute: self._execute_node(trigger_node, email_data.copy(), set())
execute_trigger ==
    /\ pc = "ready"
    /\ HasTrigger(nodes)
    /\ stack' = <<Frame(1, trigger_node(nodes).node_id, email_data, {})>>
    /\ calls' = 1
    /\ pc' = "running"
    /\ UNCHANGED <<workflow_config, email_data, nodes, result, executed, decisions>>
    /\ UNCHANGED main_vars

\* a guard that is tested after the node has been executed
circular_reference_executes ==
    /\ pc = "running"
    /\ Top.phase = "call"
    /\ Top.node \in Top.visited
    /\ Return(node_execute(TopNode, Top.data))
    /\ executed' = Append(executed, [cid |-> Top.cid, node |-> Top.node])
    /\ UNCHANGED <<workflow_config, email_data, nodes, calls, decisions>>
    /\ UNCHANGED main_vars

\* _execute_node: if node.node_id in visited: return data
circular_reference ==
    /\ pc = "running"
    /\ Top.phase = "call"
    /\ Top.node \in Top.visited
    /\ Return(Top.data)
    /\ UNCHANGED <<workflow_config, email_data, nodes, calls, executed, decisions>>
    /\ UNCHANGED main_vars

\* _execute_node: visited.add(node.node_id); result = node.execute(data)
execute_current_node ==
    /\ pc = "running"
    /\ Top.phase = "call"
    /\ Top.node \notin Top.visited
    /\ stack' = [stack EXCEPT ![Len(stack)] =
                    [@ EXCEPT !.visited = visited_add(@, Top.node),
                              !.result = node_execute(TopNode, Top.data),
                              !.phase = "loop"]]
    /\ executed' = Append(executed, [cid |-> Top.cid, node |-> Top.node])
    /\ UNCHANGED <<workflow_config, email_data, nodes, result, pc, calls, decisions>>
    /\ UNCHANGED main_vars

\* the record of one _should_follow_connection call
Decision(follow) ==
    [cid |-> Top.cid, node |-> Top.node, i |-> Top.i,
     condition |-> TopConnection.condition, target |-> TopConnection.target,
     passed |-> ("filter_passed" \in DOMAIN Top.result /\ Top.result["filter_passed"]),
     follow |-> follow]

InLoop ==
    /\ pc = "running"
    /\ Top.phase = "loop"
    /\ Top.i <= Len(TopNode.connections)

\* the loop of _execute_node: the connection's condition is not met
connection_not_followed ==
    /\ InLoop
    /\ ~should_follow_connection(Top.result, TopConnection.condition)
    /\ stack' = [stack EXCEPT ![Len(stack)].i = @ + 1]
    /\ decisions' = Append(decisions, Decision(FALSE))
    /\ UNCHANGED <<workflow_config, email_data, nodes, result, pc, calls, executed>>
    /\ UNCHANGED main_vars

\* a loop that ends at the first followed connection whose target is no node
target_not_found_breaks ==
    /\ InLoop
    /\ should_follow_connection(Top.result, TopConnection.condition)
    /\ TopConnection.target \notin NodeIds(nodes)
    /\ stack' = [stack EXCEPT ![Len(stack)].i = Len(TopNode.connections) + 1]
    /\ decisions' = Append(decisions, Decision(TRUE))
    /\ UNCHANGED <<workflow_config, email_data, nodes, result, pc, calls, executed>>
    /\ UNCHANGED main_vars

\* the loop of _execute_node: the followed connection's target is no node
target_not_found ==
    /\ InLoop
    /\ should_follow_connection(Top.result, TopConnection.condition)
    /\ TopConnection.target \notin NodeIds(nodes)
    /\ stack' = [stack EXCEPT ![Len(stack)].i = @ + 1]
    /\ decisions' = Append(decisions, Decision(TRUE))
    /\ UNCHANGED <<workflow_config, email_data, nodes, result, pc, calls, executed>>
    /\ UNCHANGED main_vars

\* the loop of _execute_node:
\* result = self._execute_node(target_node, result, visited.copy())
follow_connection ==
    /\ InLoop
    /\ should_follow_connection(Top.result, TopConnection.condition)
    /\ TopConnection.target \in NodeIds(nodes)
    /\ Len(stack) < MaxDepth
    /\ stack' = Append(stack, Frame(calls + 1, TopConnection.target, Top.result,
                                    visited_copy(Top.visited)))
    /\ calls' = calls + 1
    /\ decisions' = Append(decisions, Decision(TRUE))
    /\ UNCHANGED <<workflow_config, email_data, nodes, result, pc, executed>>
    /\ UNCHANGED main_vars

\* _execute_node: the loop is over, return result
return_result ==
    /\ pc = "running"
    /\ Top.phase = "loop"
    /\ Top.i > Len(TopNode.connections)
    /\ Return(Top.result)
    /\ UNCHANGED <<workflow_config, email_data, nodes, calls, executed, decisions>>
    /\ UNCHANGED main_vars

NextEngine ==
    \/ WorkflowEngine_init
    \/ execute_no_trigger
    \/ execute_trigger
    \/ circular_reference
    \/ execute_current_node
    \/ connection_not_followed
    \/ target_not_found
    \/ follow_connection
    \/ return_result

(***************************************************************************)
(* The same traversal as a function of the graph and the record: what      *)
(* WorkflowEngine.execute returns.  EmailProcessor.process_email calls it  *)
(* in one step.                                                            *)
(***************************************************************************)
RECURSIVE execute_node(_, _, _, _)
RECURSIVE follow_connections(_, _, _, _, _)

\* WorkflowEngine._execute_node(node, data, visited)
execute_node(ns, node_id, data, visited) ==
    IF node_id \in visited THEN data
    ELSE follow_connections(ns, node_id, 1, node_execute(NodeOf(ns, node_id), data),
                            visited_add(visited, node_id))

\* the loop of _execute_node from connection i on, result being the record so far
follow_connections(ns, node_id, i, current, visited) ==
    LET connections == NodeOf(ns, node_id).connections
    IN  IF i > Len(connections) THEN current
        ELSE LET connection == connections[i]
             IN  IF /\ should_follow_connection(current, connection.condition)
                    /\ connection.target \in NodeIds(ns)
                 THEN follow_connections(ns, node_id, i + 1,
                          execute_node(ns, connection.target, current,
                                       visited_copy(visited)),
                          visited)
                 ELSE follow_connections(ns, node_id, i + 1, current, visited)

\* WorkflowEngine.execute(email_data)
execute(ns, data) ==
    IF ~HasTrigger(ns) THEN [action |-> "accept", error |-> "No trigger node"]
    ELSE execute_node(ns, trigger_node(ns).node_id, data, {})

(***************************************************************************)
(* EmailProcessor.  A message is held parsed: its header lines in order    *)
(* and its body; the text on the input stream is those lines, a blank      *)
(* line and the body.                                                      *)
(***************************************************************************)
Whitespace == {" ", "\n", "\t", "\r"}

\* email_content.strip() is empty
IsBlank(text) ==
    /\ text.headers = <<>>
    /\ \A i \in 1..Len(text.body) : text.body[i] \in Whitespace

RECURSIVE HeaderLinesLen(_)
HeaderLinesLen(hs) ==
    IF hs = <<>> THEN 0
    ELSE Len(Head(hs).name) + 2 + Len(Head(hs).value) + 1 + HeaderLinesLen(Tail(hs))

\* len(email_content)
len(text) ==
    HeaderLinesLen(text.headers) + (IF text.headers = <<>> THEN 0 ELSE 1) + Len(text.body)

\* msg.get(name, ''): the first header of that name, names compared without case
msg_get(text, name) ==
    LET hits == {i \in 1..Len(text.headers) : lower(text.headers[i].name) = lower(name)}
    IN  IF hits = {} THEN <<>>
        ELSE text.headers[CHOOSE i \in hits : \A j \in hits : i <= j].value

RECURSIVE dict_items(_, _)
\* dict(msg.items()) over the first k headers: a repeated name keeps its place
\* and takes the later value
dict_items(hs, k) ==
    IF k = 0 THEN <<>>
    ELSE LET d == dict_items(hs, k - 1)
         IN  IF \E i \in 1..Len(d) : d[i].name = hs[k].name
             THEN [i \in 1..Len(d) |-> IF d[i].name = hs[k].name THEN hs[k] ELSE d[i]]
             ELSE Append(d, hs[k])

\* EmailProcessor._extract_body of a message that is not multipart
extract_body(text) ==
    LET declared == msg_get(text, <<"C", "o", "n", "t", "e", "n", "t", "-", "T", "y", "p", "e">>)
    IN  IF declared = <<>> \/ startswith(lower(declared), <<"t", "e", "x", "t", "/", "p", "l", "a", "i", "n">>)
        THEN text.body ELSE <<>>

\* datetime.now().isoformat(): the clock is outside the program
Now == <<"t", "0">>

\* the email_data dict of process_email
extract_email_data(text) ==
    [from |-> msg_get(text, <<"F", "r", "o", "m">>),
     to |-> msg_get(text, <<"T", "o">>),
     subject |-> msg_get(text, <<"S", "u", "b", "j", "e", "c", "t">>),
     date |-> msg_get(text, <<"D", "a", "t", "e">>),
     message_id |-> msg_get(text, <<"M", "e", "s", "s", "a", "g", "e", "-", "I", "D">>),
     body |-> extract_body(text),
     size |-> len(text),
     headers |-> dict_items(text.headers, Len(text.headers)),
     timestamp |-> Now]

\* the dict literal of EmailProcessor._create_default_config
default_config ==
    [name |-> "Default Email Filter Workflow",
     description |-> "Basic spam and security filtering",
     nodes |-> <<
        [id |-> "trigger1", type |-> "trigger", name |-> "Email Received"],
        [id |-> "filter1", type |-> "filter", name |-> "Spam Filter", logic |-> "OR",
         conditions |-> <<
            [field |-> "subject", operator |-> "contains",
             value |-> <<"[", "S", "P", "A", "M", "]">>],
            [field |-> "sender", operator |-> "contains",
             value |-> <<"n", "o", "r", "e", "p", "l", "y", "@", "s", "p", "a", "m">>]>>],
        [id |-> "action1", type |-> "action", name |-> "Reject Spam",
         action_type |-> "reject", reason |-> "Message identified as spam"],
        [id |-> "action2", type |-> "action", name |-> "Accept Email",
         action_type |-> "accept"]>>,
     connections |-> <<
        [source |-> "trigger1", target |-> "filter1"],
        [source |-> "filter1", target |-> "action1", condition |-> "true"],
        [source |-> "filter1", target |-> "action2", condition |-> "false"]>>]

Unbound == [unbound |-> TRUE]
Engine(ns) == [py |-> "WorkflowEngine", nodes |-> ns]
Running == 0 - 1

\* the path of _load_config that ends in _create_default_config: no file, a file
\* that cannot be opened, text that is no JSON, a document _build_workflow
\* raises on
LoadFalls ==
    \/ config_file.kind \in {"missing", "unreadable", "invalid"}
    \/ config_file.kind = "json" /\ build_raises(config_file.config)

AtConstruct ==
    /\ mpc = "check"
    /\ ~IsBlank(email_content)

\* the fault _load_config logs before it falls back, if any
LoadFault == IF config_file.kind = "missing" THEN {} ELSE {"load_config"}

\* main: email_content = sys.stdin.read()
main_read ==
    /\ mpc = "read"
    /\ stdin.readable
    /\ email_content' = stdin.text
    /\ mpc' = "check"
    /\ UNCHANGED <<stdin, config_file, workflow_engine, stdout, exit_status,
                   quarantine_files, faults>>
    /\ UNCHANGED engine_vars

\* main: sys.stdin.read() raises (text that does not decode, an I/O error)
main_read_raises ==
    /\ mpc = "read"
    /\ ~stdin.readable
    /\ faults' = faults \cup {"read"}
    /\ mpc' = "except"
    /\ UNCHANGED <<stdin, email_content, config_file, workflow_engine, stdout,
                   exit_status, quarantine_files>>
    /\ UNCHANGED engine_vars

\* main: if not email_content.strip(): sys.exit(1).  SystemExit is no Exception:
\* the except clause of main does not catch it
main_no_content ==
    /\ mpc = "check"
    /\ IsBlank(email_content)
    /\ exit_status' = 1
    /\ mpc' = "exited"
    /\ UNCHANGED <<stdin, email_content, config_file, workflow_engine, stdout,
                   quarantine_files, faults>>
    /\ UNCHANGED engine_vars

\* EmailProcessor(): _load_config reads the document and builds the engine
load_config ==
    /\ AtConstruct
    /\ ~LoadFalls
    /\ workflow_config' = config_file.config
    /\ workflow_engine' = Engine(build_workflow(config_file.config))
    /\ mpc' = "process"
    /\ UNCHANGED <<stdin, email_content, config_file, stdout, exit_status,
                   quarantine_files, faults>>
    /\ UNCHANGED <<email_data, nodes, stack, result, pc, calls, executed, decisions>>

\* EmailProcessor(): _load_config falls back to _create_default_config, which
\* writes the default document and builds the engine from it
create_default_config ==
    /\ AtConstruct
    /\ LoadFalls
    /\ config_file' = [kind |-> "json", config |-> default_config]
    /\ workflow_config' = default_config
    /\ workflow_engine' = Engine(build_workflow(default_config))
    /\ faults' = faults \cup LoadFault
    /\ mpc' = "process"
    /\ UNCHANGED <<stdin, email_content, stdout, exit_status, quarantine_files>>
    /\ UNCHANGED <<email_data, nodes, stack, result, pc, calls, executed, decisions>>

\* EmailProcessor(): _create_default_config cannot write the document
\* (os.makedirs, open or json.dump raises): the except clause logs, and
\* self.workflow_engine stays None
create_default_config_raises ==
    /\ AtConstruct
    /\ LoadFalls
    /\ faults' = faults \cup LoadFault \cup {"create_default_config"}
    /\ mpc' = "process"
    /\ UNCHANGED <<stdin, email_content, config_file, workflow_engine, stdout,
                   exit_status, quarantine_files>>
    /\ UNCHANGED engine_vars

\* EmailProcessor.process_email: the try block runs to its return
process_email ==
    /\ mpc = "process"
    /\ email_data' = extract_email_data(email_content)
    /\ result' = IF workflow_engine # None
                 THEN execute(workflow_engine.nodes, email_data')
                 ELSE [action |-> "accept", error |-> "No workflow engine"]
    /\ mpc' = "dispatch"
    /\ UNCHANGED main_vars_but_mpc
    /\ UNCHANGED <<workflow_config, nodes, stack, pc, calls, executed, decisions>>

\* EmailProcessor.process_email: an exception leaves the try block (parsing,
\* extraction or the traversal raised); except Exception returns accept
process_email_raises ==
    /\ mpc = "process"
    /\ result' = [action |-> "accept", error |-> "exception"]
    /\ faults' = faults \cup {"process_email"}
    /\ mpc' = "dispatch"
    /\ UNCHANGED <<stdin, email_content, config_file, workflow_engine, stdout,
                   exit_status, quarantine_files>>
    /\ UNCHANGED <<workflow_config, email_data, nodes, stack, pc, calls, executed,
                   decisions>>

\* main: action = result.get('action', 'accept')
action_of(r) == IF "action" \in DOMAIN r THEN r["action"] ELSE "accept"

\* main: if action == 'reject': sys.exit(1)
main_reject ==
    /\ mpc = "dispatch"
    /\ action_of(result) = "reject"
    /\ exit_status' = 1
    /\ mpc' = "exited"
    /\ UNCHANGED <<stdin, email_content, config_file, workflow_engine, stdout,
                   quarantine_files, faults>>
    /\ UNCHANGED engine_vars

\* main: elif action == 'quarantine': os.makedirs(quarantine_folder, exist_ok=True)
main_quarantine_makedirs ==
    /\ mpc = "dispatch"
    /\ action_of(result) = "quarantine"
    /\ mpc' = "write"
    /\ UNCHANGED main_vars_but_mpc
    /\ UNCHANGED engine_vars

\* main: os.makedirs raises
main_quarantine_makedirs_raises ==
    /\ mpc = "dispatch"
    /\ action_of(result) = "quarantine"
    /\ faults' = faults \cup {"makedirs"}
    /\ mpc' = "except"
    /\ UNCHANGED <<stdin, email_content, config_file, workflow_engine, stdout,
                   exit_status, quarantine_files>>
    /\ UNCHANGED engine_vars

\* main: the quarantine file is written; sys.exit(1)
main_quarantine_write ==
    /\ mpc = "write"
    /\ quarantine_files' = quarantine_files \cup
           {[folder |-> GetOr(result, "quarantine_folder", "/var/mail/quarantine"),
             content |-> email_content]}
    /\ exit_status' = 1
    /\ mpc' = "exited"
    /\ UNCHANGED <<stdin, email_content, config_file, workflow_engine, stdout, faults>>
    /\ UNCHANGED engine_vars

\* main: open or f.write raises
main_quarantine_write_raises ==
    /\ mpc = "write"
    /\ faults' = faults \cup {"write"}
    /\ mpc' = "except"
    /\ UNCHANGED <<stdin, email_content, config_file, workflow_engine, stdout,
                   exit_status, quarantine_files>>
    /\ UNCHANGED engine_vars

\* main: else: print(email_content); sys.exit(0)
main_accept ==
    /\ mpc = "dispatch"
    /\ action_of(result) \notin {"reject", "quarantine"}
    /\ stdout' = Append(stdout, email_content)
    /\ exit_status' = 0
    /\ mpc' = "exited"
    /\ UNCHANGED <<stdin, email_content, config_file, workflow_engine,
                   quarantine_files, faults>>
    /\ UNCHANGED engine_vars

\* main: except Exception: print(email_content); sys.exit(0)
main_except ==
    /\ mpc = "except"
    /\ email_content # Unbound
    /\ stdout' = Append(stdout, email_content)
    /\ exit_status' = 0
    /\ mpc' = "exited"
    /\ UNCHANGED <<stdin, email_content, config_file, workflow_engine,
                   quarantine_files, faults>>
    /\ UNCHANGED engine_vars

\* main: except Exception: print(email_content) with email_content never
\* assigned: UnboundLocalError leaves main, the interpreter prints the traceback
\* and ends with status 1
main_except_unbound ==
    /\ mpc = "except"
    /\ email_content = Unbound
    /\ exit_status' = 1
    /\ mpc' = "exited"
    /\ UNCHANGED <<stdin, email_content, config_file, workflow_engine, stdout,
                   quarantine_files, faults>>
    /\ UNCHANGED engine_vars

NextMain ==
    \/ main_read
    \/ main_read_raises
    \/ main_no_content
    \/ load_config
    \/ create_default_config
    \/ create_default_config_raises
    \/ process_email
    \/ process_email_raises
    \/ main_reject
    \/ main_quarantine_makedirs
    \/ main_quarantine_makedirs_raises
    \/ main_quarantine_write
    \/ main_quarantine_write_raises
    \/ main_accept
    \/ main_except
    \/ main_except_unbound

(***************************************************************************)
(* Inputs: messages.                                                       *)
(***************************************************************************)
Header(name, value) == [name |-> name, value |-> value]

\* the text of a message with a From and a Subject line, each left out when empty
Message(from, subject) ==
    [headers |->
        (IF from = <<>> THEN <<>> ELSE <<Header(<<"F", "r", "o", "m">>, from)>>)
        \o (IF subject = <<>> THEN <<>> ELSE <<Header(<<"S", "u", "b", "j", "e", "c", "t">>, subject)>>),
     body |-> <<"h", "i", "\n">>]

Senders == {<<>>,
            <<"a", "@", "b", ".", "c", "o", "m">>,
            <<"N", "o", "R", "e", "p", "l", "y", "@", "S", "p", "a", "m", ".", "i", "o">>,
            <<"n", "o", "r", "e", "p", "l", "y", "@", "s", "p", "a">>}
Subjects == {<<>>,
             <<"h", "e", "l", "l", "o">>,
             <<"[", "S", "P", "A", "M", "]", " ", "b", "u", "y", " ", "n", "o", "w">>,
             <<"R", "e", ":", " ", "[", "s", "p", "a", "m", "]">>,
             <<"[", "S", "P", "A", "M">>,
             <<"S", "P", "A", "M", "]">>}

Messages == {Message(f, s) : f \in Senders, s \in Subjects}
BlankTexts == {[headers |-> <<>>, body |-> <<>>],
               [headers |-> <<>>, body |-> <<" ", "\n">>]}

(***************************************************************************)
(* Inputs: configuration documents.                                        *)
(***************************************************************************)
\* an id no node entry declares
NoSuchId == "nx"

NodeKinds == {"trigger", "pass", "fail", "reject", "bogus"}

\* one node entry of a configuration document
NodeEntry(id, kind) ==
    CASE kind = "trigger" -> [id |-> id, type |-> "trigger"]
      [] kind = "pass"    -> [id |-> id, type |-> "filter", logic |-> "AND",
                              conditions |-> <<>>]
      [] kind = "fail"    -> [id |-> id, type |-> "filter", logic |-> "OR",
                              conditions |-> <<>>]
      [] kind = "reject"  -> [id |-> id, type |-> "action", action_type |-> "reject",
                              reason |-> "spam"]
      [] kind = "quarantine" -> [id |-> id, type |-> "action",
                                 action_type |-> "quarantine", folder |-> "/q"]
      [] kind = "hold"    -> [id |-> id, type |-> "action", action_type |-> "quarantine"]
      [] kind = "tag"     -> [id |-> id, type |-> "action", action_type |-> "tag",
                              tags |-> <<"bulk">>]
      [] kind = "bogus"   -> [id |-> id, type |-> "action", action_type |-> "bogus"]
      [] kind = "none"    -> [id |-> id, type |-> "action"]
      [] kind = "webhook" -> [id |-> id, type |-> "webhook"]

\* a connection entry of a configuration document: Connection(s, t) has no
\* condition key
Connection(s, t) == [source |-> s, target |-> t]
Conditional(s, t, c) == [source |-> s, target |-> t, condition |-> c]

Config(node_entries, connection_entries) ==
    [nodes |-> node_entries, connections |-> connection_entries]

\* every two-node document that opens with a trigger or a filter, with up to
\* MaxConns connections
EnumIds == {"n1", "n2"}
EnumLabels == {"true", "false"}
FirstKinds == {"trigger", "pass"}
ConnectionEntries ==
    {Connection(s, t) : s \in EnumIds, t \in EnumIds \cup {NoSuchId}}
    \cup {Conditional(s, t, c) :
              s \in EnumIds, t \in EnumIds \cup {NoSuchId}, c \in EnumLabels}
EnumConfigs ==
    {Config(<<NodeEntry("n1", k1), NodeEntry("n2", k2)>>, conns) :
        k1 \in FirstKinds, k2 \in NodeKinds,
        conns \in UNION {[1..k -> ConnectionEntries] : k \in 0..MaxConns}}

\* trigger -> node -> action, the second connection carrying each label
AllLabels == {"true", "false", "", "True", "yes", "TRUE", "0"}
LabelConfigs ==
    {Config(<<NodeEntry("n1", "trigger"), NodeEntry("n2", k), NodeEntry("n3", "reject")>>,
            <<Connection("n1", "n2"), c>>) :
        k \in {"pass", "fail", "bogus"},
        c \in {Connection("n2", "n3")}
               \cup {Conditional("n2", "n3", l) : l \in AllLabels}}

\* three nodes under every list of up to MaxEdges unconditional connections,
\* self-loops included
CycleIds == {"n1", "n2", "n3"}
Edges == {Connection(s, t) : s \in CycleIds, t \in CycleIds}
CycleConfigs ==
    {Config(<<NodeEntry("n1", "trigger"), NodeEntry("n2", "pass"),
              NodeEntry("n3", "tag")>>, conns) :
        conns \in UNION {[1..k -> Edges] : k \in 0..MaxEdges}}

Diamond ==
    Config(<<NodeEntry("n1", "trigger"), NodeEntry("n2", "pass"),
             NodeEntry("n3", "fail"), NodeEntry("n4", "tag")>>,
           <<Connection("n1", "n2"), Connection("n1", "n3"),
             Connection("n2", "n4"), Connection("n3", "n4")>>)
Ring ==
    Config(<<NodeEntry("n1", "trigger"), NodeEntry("n2", "pass"),
             NodeEntry("n3", "tag"), NodeEntry("n4", "reject")>>,
           <<Connection("n1", "n2"), Connection("n2", "n3"),
             Connection("n3", "n4"), Connection("n4", "n1")>>)
TwoRings ==
    Config(<<NodeEntry("n1", "trigger"), NodeEntry("n2", "pass"),
             NodeEntry("n3", "tag")>>,
           <<Connection("n1", "n2"), Connection("n2", "n1"), Connection("n2", "n3"),
             Connection("n3", "n2"), Connection("n3", "n3")>>)
TwoTriggers ==
    Config(<<NodeEntry("n1", "reject"), NodeEntry("n2", "trigger"),
             NodeEntry("n3", "trigger"), NodeEntry("n4", "tag")>>,
           <<Connection("n3", "n1"), Connection("n2", "n4"), Connection("n4", "n3")>>)
Omitted ==
    Config(<<NodeEntry("n1", "trigger"), NodeEntry("n2", "webhook"),
             NodeEntry("n3", "reject"), NodeEntry("n4", "none")>>,
           <<Connection("n2", "n3"), Connection("n1", "n2"),
             Conditional("n1", "n4", "false"), Connection("n4", NoSuchId),
             Conditional("n4", "n3", "true")>>)
NoTrigger ==
    Config(<<NodeEntry("n1", "reject"), NodeEntry("n2", "pass")>>,
           <<Connection("n1", "n2"), Connection("n2", "n1")>>)
\* a trigger whose first labelled connection leads to a filter that sets
\* filter_passed
Both ==
    Config(<<NodeEntry("n1", "trigger"), NodeEntry("n2", "pass"),
             NodeEntry("n3", "tag")>>,
           <<Conditional("n1", "n2", "false"), Conditional("n1", "n3", "true")>>)
\* a filter with a connection, between its two labelled ones, to a filter that
\* clears filter_passed
Neither ==
    Config(<<NodeEntry("n1", "trigger"), NodeEntry("n2", "pass"),
             NodeEntry("n3", "fail"), NodeEntry("n4", "tag")>>,
           <<Connection("n1", "n2"), Conditional("n2", "n4", "false"),
             Connection("n2", "n3"), Conditional("n2", "n4", "true")>>)

\* two nodes, one at least of a type _build_workflow does not know, under every
\* list of up to MaxConns unconditional connections
SkippedKinds ==
    {<<"trigger", "webhook">>, <<"webhook", "trigger">>, <<"webhook", "reject">>,
     <<"webhook", "webhook">>}
SkippedConfigs ==
    {Config(<<NodeEntry("n1", ks[1]), NodeEntry("n2", ks[2])>>, conns) :
        ks \in SkippedKinds,
        conns \in UNION {[1..k -> {Connection(x, t) : x \in EnumIds,
                                                      t \in EnumIds \cup {NoSuchId}}] :
                            k \in 0..MaxConns}}

\* a chain through a filter and the Action nodes that carry a payload or none
Payloads ==
    Config(<<NodeEntry("n1", "trigger"),
             [id |-> "n2", type |-> "action", action_type |-> "forward",
              forward_to |-> "postmaster"],
             [id |-> "n3", type |-> "action", action_type |-> "modify_headers"],
             NodeEntry("n4", "pass"),
             [id |-> "n5", type |-> "action", action_type |-> "accept"],
             [id |-> "n6", type |-> "action", action_type |-> "forward"]>>,
           <<Connection("n1", "n2"), Connection("n2", "n3"), Connection("n3", "n4"),
             Connection("n4", "n5"), Connection("n4", "n6")>>)

\* a reject followed by an Action node of an unknown type and one without type
Unrecognized ==
    Config(<<NodeEntry("n1", "trigger"), NodeEntry("n2", "reject"),
             NodeEntry("n3", "bogus"), NodeEntry("n4", "none"),
             NodeEntry("n5", "pass")>>,
           <<Connection("n1", "n2"), Connection("n2", "n3"), Connection("n3", "n4"),
             Conditional("n4", "n5", "false")>>)

\* a trigger and three Action nodes of different types under every list of up
\* to MaxEdges connections among them
OrderEdges ==
    {Connection("n1", "n2"), Connection("n1", "n3"), Connection("n1", "n4"),
     Connection("n2", "n3"), Connection("n3", "n4"), Connection("n4", "n2")}
OrderConfigs ==
    {Config(<<NodeEntry("n1", "trigger"), NodeEntry("n2", "reject"),
              NodeEntry("n3", "tag"), NodeEntry("n4", "quarantine")>>, conns) :
        conns \in UNION {[1..k -> OrderEdges] : k \in 0..MaxEdges}}

ShapeConfigs == {Diamond, Ring, TwoRings, TwoTriggers, Omitted, NoTrigger, Both, Neither,
                 Payloads, Unrecognized, default_config}

\* the default document with every filter of up to MaxConds conditions in place
\* of its filter
ConditionEntries ==
    {[field |-> "subject", operator |-> "contains", value |-> <<"[", "S", "P", "A", "M", "]">>],
     [field |-> "sender", operator |-> "contains", value |-> <<"n", "o", "r", "e", "p", "l", "y", "@", "s", "p", "a", "m">>],
     [field |-> "subject", operator |-> "equals", value |-> <<"H", "E", "L", "L", "O">>],
     [field |-> "size", operator |-> "greater_than", value |-> <<"2", "0">>],
     [field |-> "sender", operator |-> "ends_with"],
     [field |-> "subject", operator |-> "matches", value |-> <<"h", "e", "l", "l", "o">>]}
ConditionLists == UNION {[1..k -> ConditionEntries] : k \in 0..MaxConds}
FilterEntries ==
    {[id |-> "filter1", type |-> "filter", conditions |-> cl] : cl \in ConditionLists}
    \cup {[id |-> "filter1", type |-> "filter", logic |-> l, conditions |-> cl] :
              l \in {"AND", "OR"}, cl \in ConditionLists}
    \cup {[id |-> "filter1", type |-> "filter", logic |-> "AND"],
          [id |-> "filter1", type |-> "filter"]}
FilterConfigs ==
    {[default_config EXCEPT !.nodes[2] = f] : f \in FilterEntries} \cup {default_config}

\* the default document with a filter of one condition whose evaluation meets
\* a fault, or just does not
FaultEntries ==
    {[field |-> "subject", operator |-> "greater_than", value |-> <<"2", "0">>],
     [field |-> "subject", operator |-> "less_than", value |-> <<"2", "0">>],
     [field |-> "size", operator |-> "greater_than", value |-> <<"a", "b", "c">>],
     [field |-> "size", operator |-> "less_than", value |-> <<"a", "b", "c">>],
     [field |-> "size", operator |-> "less_than", value |-> <<"9", "9">>],
     [field |-> "size", operator |-> "greater_than"],
     [field |-> "subject", operator |-> "regex", value |-> <<"(", "?", "i", ")", "h", "e", "l", "l", "o">>],
     [field |-> "subject", operator |-> "regex", value |-> <<"h", "e", "l", "l", "o", "(">>],
     [field |-> "subject", operator |-> "regex"],
     [field |-> "subject", operator |-> "not_contains"],
     [field |-> "subject", operator |-> "is", value |-> <<"h", "e", "l", "l", "o">>],
     [field |-> "subject", value |-> <<"h", "e", "l", "l", "o">>]}
FaultConfigs ==
    {[default_config EXCEPT !.nodes[2] =
          [id |-> "filter1", type |-> "filter", logic |-> "OR", conditions |-> <<e>>]] :
        e \in FaultEntries}

\* what /etc/postfix/n8n-workflow.json may hold when main starts
MainConfigs ==
    {default_config,
     Config(<<NodeEntry("n1", "trigger"), NodeEntry("n2", "quarantine")>>,
            <<Connection("n1", "n2")>>),
     Config(<<NodeEntry("n1", "trigger"), NodeEntry("n2", "hold")>>,
            <<Connection("n1", "n2")>>),
     Config(<<NodeEntry("n1", "trigger"), NodeEntry("n2", "reject")>>,
            <<Connection("n1", "n2")>>),
     Config(<<NodeEntry("n1", "trigger"), NodeEntry("n2", "tag")>>,
            <<Connection("n1", "n2")>>),
     Config(<<NodeEntry("n1", "trigger"), NodeEntry("n2", "pass")>>,
            <<Connection("n1", "n2")>>),
     NoTrigger,
     \* an entry without its type key, a connection without its target key
     Config(<<NodeEntry("n1", "trigger"), [id |-> "n2"]>>, <<>>),
     Config(<<NodeEntry("n1", "trigger")>>, <<[source |-> "n1"]>>)}
ConfigFiles ==
    {[kind |-> k] : k \in {"missing", "unreadable", "invalid"}}
    \cup {[kind |-> "json", config |-> c] : c \in MainConfigs}

(***************************************************************************)
(* The specifications.                                                     *)
(***************************************************************************)
EngineIdle ==
    /\ nodes = <<>>
    /\ stack = <<>>
    /\ result = NotReturned
    /\ calls = 0
    /\ executed = <<>>
    /\ decisions = <<>>

MainIdle ==
    /\ mpc = "idle"
    /\ stdin = [readable |-> FALSE]
    /\ email_content = Unbound
    /\ config_file = [kind |-> "missing"]
    /\ workflow_engine = None
    /\ stdout = <<>>
    /\ exit_status = Running
    /\ quarantine_files = {}
    /\ faults = {}

HelloData == extract_email_data(Message(<<"a", "@", "b", ".", "c", "o", "m">>, <<"h", "e", "l", "l", "o">>))

\* a WorkflowEngine is built from a document and execute is called once
InitEngine ==
    /\ workflow_config \in EnumConfigs \cup LabelConfigs \cup OrderConfigs \cup SkippedConfigs
                           \cup ShapeConfigs
    /\ email_data = HelloData
    /\ pc = "init"
    /\ EngineIdle
    /\ MainIdle

SpecEngine == InitEngine /\ [][NextEngine]_vars

\* a WorkflowEngine built from a document that may hold cycles, and one call of
\* execute on it: the traversal alone, under weak fairness of its steps
EngineBuilt ==
    /\ nodes = build_workflow(workflow_config)
    /\ pc = "ready"
    /\ stack = <<>>
    /\ result = NotReturned
    /\ calls = 0
    /\ executed = <<>>
    /\ decisions = <<>>

InitCycles ==
    /\ workflow_config \in CycleConfigs \cup ShapeConfigs
    /\ email_data = HelloData
    /\ EngineBuilt
    /\ MainIdle

NextTraversal ==
    \/ execute_no_trigger
    \/ execute_trigger
    \/ circular_reference
    \/ execute_current_node
    \/ connection_not_followed
    \/ target_not_found
    \/ follow_connection
    \/ return_result

FairEngine == InitCycles /\ [][NextTraversal]_vars /\ WF_vars(NextTraversal)

\* the traversal alone, step by step, over the cyclic documents, the chains of
\* Action nodes and the documents with labels, skipped nodes and dangling targets
InitTraversal ==
    /\ workflow_config \in CycleConfigs \cup OrderConfigs \cup LabelConfigs
                           \cup SkippedConfigs \cup ShapeConfigs
    /\ email_data = HelloData
    /\ EngineBuilt
    /\ MainIdle

SpecTraversal == InitTraversal /\ [][NextTraversal]_vars

\* the same over the filters and the messages
InitFilter ==
    /\ \/ /\ workflow_config \in FilterConfigs \cup FaultConfigs
          /\ email_data \in {extract_email_data(m) : m \in Messages}
       \/ /\ workflow_config \in ShapeConfigs
          /\ email_data = HelloData
    /\ pc = "init"
    /\ EngineIdle
    /\ MainIdle

SpecFilter == InitFilter /\ [][NextEngine]_vars

\* one run of main()
InitMain ==
    /\ mpc = "read"
    /\ stdin \in {[readable |-> FALSE]}
                 \cup {[readable |-> TRUE, text |-> t] : t \in Messages \cup BlankTexts}
    /\ config_file \in ConfigFiles
    /\ email_content = Unbound
    /\ workflow_engine = None
    /\ stdout = <<>>
    /\ exit_status = Running
    /\ quarantine_files = {}
    /\ faults = {}
    /\ workflow_config = Config(<<>>, <<>>)
    /\ email_data = NotReturned
    /\ pc = "idle"
    /\ EngineIdle

SpecMain == InitMain /\ [][NextMain]_vars

\* the step machine and the function agree on what execute returns
StepsAgree == pc = "returned" => result = execute(nodes, email_data)

\* the cap on the depth of the model never holds back a call
DepthCapUnused == Len(stack) < MaxDepth

(***************************************************************************)
(* The claims.                                                             *)
(***************************************************************************)
Exited == mpc = "exited"
\* the message was echoed to the output and status 0 signalled
Delivered == exit_status = 0 /\ stdin.readable /\ stdout = <<stdin.text>>
\* workflow evaluation returned reject or quarantine
Verdict == "action" \in DOMAIN result /\ result["action"] \in {"reject", "quarantine"}

\* C1: in every run of main that has read its input, the message is echoed and
\* status 0 signalled unless workflow evaluation returned reject or quarantine -
\* also when the input is empty or whitespace-only.
C1_WithheldOnlyOnVerdict == (Exited /\ stdin.readable) => (Verdict \/ Delivered)

\* C2: fail open - when a fault occurred at a step of main (reading the input,
\* loading the configuration, evaluating the workflow, creating the quarantine
\* folder, writing the quarantine file) the process ends having emitted the
\* message unchanged, with status 0.
C2_FailOpen == (Exited /\ faults # {}) => Delivered

ActionTypes == {"reject", "quarantine", "forward", "modify_headers", "accept", "tag"}
\* the node is an Action node whose action_type is one ActionNode.execute knows
Recognized(node) ==
    /\ node.node_type = "action"
    /\ "action_type" \in DOMAIN node.config
    /\ node.config.action_type \in ActionTypes
\* some executed node was a recognized Action node
ActionRan == \E k \in 1..Len(executed) : Recognized(NodeOf(nodes, executed[k].node))

\* C3 as claimed: the record execute returns contains 'action', which is
\* 'accept' when no Action node set one.
C3_ResultHasAction ==
    pc = "returned" =>
        /\ "action" \in DOMAIN result
        /\ (~ActionRan => result["action"] = "accept")

\* C3 as amended: the record execute returns contains 'action' exactly when the
\* graph has no trigger (then it is 'accept') or a recognized Action node was
\* executed; otherwise it has no 'action' attribute and the lookup of main,
\* result.get('action', 'accept'), yields 'accept'.
C3_ActionOnlyWhenSet ==
    pc = "returned" =>
        /\ ("action" \in DOMAIN result) <=> (~HasTrigger(nodes) \/ ActionRan)
        /\ (~HasTrigger(nodes) => result["action"] = "accept")
        /\ (HasTrigger(nodes) /\ ~ActionRan => action_of(result) = "accept")
C3_Witness ==
    /\ pc = "returned"
    /\ HasTrigger(nodes)
    /\ ~ActionRan
    /\ \E k \in 1..Len(executed) : NodeOf(nodes, executed[k].node).node_type = "action"
    /\ "action" \notin DOMAIN result

\* C4: WorkflowEngine.execute terminates on every graph, cyclic ones included:
\* every run reaches the return of execute.
C4_Terminates == <>(pc = "returned")
C4_Witness ==
    /\ pc = "returned"
    /\ workflow_config = TwoRings
    /\ calls > Len(executed)

\* the label of a connection and the truth of filter_passed decide the follow
FollowTable(condition, passed) ==
    CASE condition = None -> TRUE
      [] condition = Str("true") -> passed
      [] condition = Str("false") -> ~passed
      [] OTHER -> FALSE

\* C5 as claimed: a connection without label is followed, one labelled 'true'
\* iff filter_passed is truthy, one labelled 'false' iff it is falsy or absent,
\* one with any other label ('', 'True', 'yes') never.
C5_FollowByLabel ==
    \A k \in 1..Len(decisions) :
        decisions[k].follow = FollowTable(decisions[k].condition, decisions[k].passed)

\* C5 as amended: as claimed, but a connection whose label is the empty string
\* is always followed, like one without label; any other non-empty label never.
C5_FollowByLabelOrEmpty ==
    \A k \in 1..Len(decisions) :
        decisions[k].follow =
            IF decisions[k].condition = Str("") THEN TRUE
            ELSE FollowTable(decisions[k].condition, decisions[k].passed)
C5_Witness ==
    /\ pc = "returned"
    /\ \E k \in 1..Len(decisions) :
           decisions[k].condition = Str("") /\ decisions[k].follow /\ ~decisions[k].passed

\* the node has one connection labelled 'true' and one labelled 'false'
OneOfEach(node) ==
    /\ Cardinality({i \in 1..Len(node.connections) :
                       node.connections[i].condition = Str("true")}) = 1
    /\ Cardinality({i \in 1..Len(node.connections) :
                       node.connections[i].condition = Str("false")}) = 1
\* decisions j and k are those of one execution of such a node on its two
\* labelled connections
LabelledPair(j, k) ==
    /\ decisions[j].cid = decisions[k].cid
    /\ decisions[j].condition = Str("true")
    /\ decisions[k].condition = Str("false")
    /\ OneOfEach(NodeOf(nodes, decisions[j].node))

\* C6 as claimed: one execution of a node with a 'true' and a 'false'
\* connection follows exactly one of the two, whatever happens downstream.
C6_ExactlyOne ==
    \A j, k \in 1..Len(decisions) :
        LabelledPair(j, k) => (decisions[j].follow # decisions[k].follow)

\* C6 as amended: it follows exactly one of the two whenever filter_passed has
\* the same truth at both decisions; the record a followed target returns is the
\* one the next decision reads, so a target that changes filter_passed can make
\* the node follow both, or neither.
C6_ExactlyOneWhenUnchanged ==
    \A j, k \in 1..Len(decisions) :
        (LabelledPair(j, k) /\ decisions[j].passed = decisions[k].passed)
            => (decisions[j].follow # decisions[k].follow)
C6_Witness ==
    /\ pc = "returned"
    /\ \E j, k \in 1..Len(decisions) :
           /\ LabelledPair(j, k)
           /\ decisions[j].passed = decisions[k].passed
           /\ decisions[j].follow
           /\ ~decisions[k].follow

\* text holds the lower-case needle, case ignored
Mentions(text, needle) ==
    \E i \in 1..Len(text) :
        /\ i + Len(needle) - 1 <= Len(text)
        /\ \A j \in 1..Len(needle) : LowerChar(text[i + j - 1]) = needle[j]
Spam ==
    \/ Mentions(email_data.subject, <<"[", "s", "p", "a", "m", "]">>)
    \/ Mentions(email_data.from, <<"n", "o", "r", "e", "p", "l", "y", "@", "s", "p", "a", "m">>)
RanNode(id) == \E k \in 1..Len(executed) : executed[k].node = id
SpamOffer == extract_email_data(Message(<<>>, <<"[", "S", "P", "A", "M", "]", " ", "b", "u", "y", " ", "n", "o", "w">>))

\* C7: the default graph yields reject iff the subject contains [SPAM] or the
\* sender contains noreply@spam, case ignored, and accept otherwise; subject
\* "[SPAM] buy now" alone yields reject, subject "hello" from a@b.com accept;
\* exactly one of the two Action nodes is executed.
C7_DefaultGraph ==
    (pc = "returned" /\ workflow_config = default_config) =>
        /\ "action" \in DOMAIN result
        /\ result["action"] = (IF Spam THEN "reject" ELSE "accept")
        /\ (email_data = SpamOffer => result["action"] = "reject")
        /\ (email_data = HelloData => result["action"] = "accept")
        /\ RanNode("action1") # RanNode("action2")
        /\ Cardinality({k \in 1..Len(executed) :
                           executed[k].node \in {"action1", "action2"}}) = 1
C7_Witness ==
    /\ pc = "returned"
    /\ workflow_config = default_config
    /\ email_data = SpamOffer
    /\ result["action"] = "reject"
    /\ RanNode("action1")

\* C8: with no trigger node in the built graph, execute returns a record with
\* action accept and an error attribute, and no node is executed.
C8_NoTrigger ==
    (pc = "returned" /\ ~HasTrigger(nodes)) =>
        /\ DOMAIN result = {"action", "error"}
        /\ result["action"] = "accept"
        /\ executed = <<>>
        /\ calls = 0
C8_Witness ==
    /\ pc = "returned"
    /\ ~HasTrigger(nodes)
    /\ Len(nodes) = 2
    /\ nodes[1].connections # <<>>

\* the document without the connections whose target is no node of its graph
WithoutDangling(config) ==
    LET ids == NodeIds(build_nodes(nodes_config(config), Len(nodes_config(config))))
        Kept(conn) == conn.target \in ids
    IN  [config EXCEPT !.connections = SelectSeq(@, Kept)]

\* C9: a followed connection to an id that is no node is skipped, the later
\* connections are still considered: the run returns what it returns on the
\* document without the dangling connections.
C9_DanglingSkipped ==
    pc = "returned" =>
        result = execute(build_workflow(WithoutDangling(workflow_config)), email_data)
C9_Witness ==
    /\ pc = "returned"
    /\ \E j, k \in 1..Len(decisions) :
           /\ decisions[j].cid = decisions[k].cid
           /\ decisions[j].i < decisions[k].i
           /\ decisions[j].follow
           /\ decisions[j].target \notin NodeIds(nodes)
           /\ decisions[k].follow
           /\ decisions[k].target \in NodeIds(nodes)
    /\ "action" \in DOMAIN result

\* a Filter node has just been executed by the innermost call
FilterJustRan ==
    /\ pc = "running"
    /\ Top.phase = "loop"
    /\ Top.i = 1
    /\ TopNode.node_type = "filter"

\* C10: after a Filter node executes, filter_passed is true under AND iff every
\* condition result is true, under OR iff at least one is; with no conditions
\* it is true under AND and false under OR; with no logic configured the mode
\* is AND.
C10_FilterLogic ==
    FilterJustRan =>
        LET config  == TopNode.config
            results == Top.result["filter_results"]
            passed  == Top.result["filter_passed"]
            every   == \A i \in 1..Len(results) : results[i].result
            some    == \E i \in 1..Len(results) : results[i].result
            none    == "conditions" \notin DOMAIN config \/ config.conditions = <<>>
        IN  /\ ("logic" \notin DOMAIN config => passed = every)
            /\ ("logic" \in DOMAIN config /\ config.logic = "AND" => passed = every)
            /\ ("logic" \in DOMAIN config /\ config.logic = "OR" => passed = some)
            /\ (none => Len(results) = 0)
            /\ (none /\ "logic" \notin DOMAIN config => passed)
            /\ (none /\ "logic" \in DOMAIN config /\ config.logic = "AND" => passed)
            /\ (none /\ "logic" \in DOMAIN config /\ config.logic = "OR" => ~passed)
            /\ (~none => Len(results) = Len(config.conditions))
C10_Witness ==
    /\ FilterJustRan
    /\ "logic" \notin DOMAIN TopNode.config
    /\ Len(Top.result["filter_results"]) = 2
    /\ Top.result["filter_results"][1].result
    /\ ~Top.result["filter_results"][2].result
    /\ ~Top.result["filter_passed"]

\* the engine _create_default_config builds
DefaultEngine == Engine(build_workflow(default_config))
\* loading the document failed, or writing the default one did
FellBack == faults \cap {"load_config", "create_default_config"} # {}

\* C11: a message is never evaluated without a workflow graph, and whenever
\* loading the configuration failed it is evaluated against the default graph,
\* also when the default document could not be written.
C11_DefaultGraphOnFallback ==
    mpc = "dispatch" =>
        /\ workflow_engine # None
        /\ (FellBack => workflow_engine = DefaultEngine)

\* the innermost call is on a node of its own visited set
Revisit ==
    /\ pc = "running"
    /\ Top.phase = "call"
    /\ Top.node \in Top.visited
\* the calls of the chain that have executed their node are on different nodes
NoRepeat ==
    \A i, j \in 1..Len(stack) :
        (i # j /\ stack[i].phase = "loop" /\ stack[j].phase = "loop")
            => stack[i].node # stack[j].node

\* C12: a call of _execute_node on a node of its visited set executes no node,
\* follows no connection and hands the record it was given back to its caller
\* as the caller's record; no node is executed twice on one chain of calls.
C12_VisitedReturns ==
    [][/\ Revisit =>
            /\ executed' = executed
            /\ decisions' = decisions
            /\ calls' = calls
            /\ Len(stack') = Len(stack) - 1
            /\ Last(stack').result = Top.data
            /\ Top.data = stack[Len(stack) - 1].result
       /\ NoRepeat']_vars
C12_Witness ==
    /\ pc = "running"
    /\ workflow_config = Ring
    /\ Top.phase = "loop"
    /\ calls > Len(executed)
    /\ "action" \in DOMAIN Top.result

\* the place in executed of the last recognized Action node
LastActionRun ==
    CHOOSE k \in 1..Len(executed) :
        /\ Recognized(NodeOf(nodes, executed[k].node))
        /\ \A m \in (k + 1)..Len(executed) : ~Recognized(NodeOf(nodes, executed[m].node))

\* C13: the connections of a node are decided in configured order on one
\* record: a call receives the record its caller holds at that moment, and
\* the action of the returned record is the one of the last recognized Action
\* node executed.
C13_LastActionWins ==
    /\ \A j, k \in 1..Len(decisions) :
           (j < k /\ decisions[j].cid = decisions[k].cid)
               => decisions[j].i < decisions[k].i
    /\ \A f \in 2..Len(stack) :
           stack[f].phase = "call" => stack[f].data = stack[f - 1].result
    /\ (pc = "returned" /\ ActionRan) =>
           /\ "action" \in DOMAIN result
           /\ result["action"] =
                  NodeOf(nodes, executed[LastActionRun].node).config.action_type
C13_Witness ==
    /\ pc = "returned"
    /\ Len(executed) = 4
    /\ executed[2].node = "n3"
    /\ executed[3].node = "n4"
    /\ executed[4].node = "n2"
    /\ nodes[1].connections = <<[target |-> "n3", condition |-> None],
                               [target |-> "n2", condition |-> None]>>
    /\ result["action"] = "reject"

\* the node entries of the document that become nodes, in document order
KeptEntries ==
    LET Known(entry) == entry.type \in {"trigger", "filter", "action"}
    IN  SelectSeq(nodes_config(workflow_config), Known)
\* the connection entries of the document whose source is id, in document order
EntriesFrom(id) ==
    LET From(entry) == entry.source = id
    IN  SelectSeq(connections_config(workflow_config), From)

\* C14: the built graph holds the node entries of type trigger, filter or
\* action and no other, in document order; the connection list of a node is
\* the connection entries whose source it is, in document order, wherever the
\* entries stand; entries whose source is no node are dropped, entries whose
\* target is an omitted node are kept.  (Node ids are unique in the document.)
C14_BuiltGraph ==
    pc # "init" =>
        /\ Len(nodes) = Len(KeptEntries)
        /\ \A i \in 1..Len(nodes) :
               /\ nodes[i].node_id = KeptEntries[i].id
               /\ nodes[i].node_type = KeptEntries[i].type
               /\ nodes[i].config = KeptEntries[i]
               /\ Len(nodes[i].connections) = Len(EntriesFrom(nodes[i].node_id))
               /\ \A c \in 1..Len(nodes[i].connections) :
                      LET entry == EntriesFrom(nodes[i].node_id)[c]
                      IN  /\ nodes[i].connections[c].target = entry.target
                          /\ nodes[i].connections[c].condition =
                                 (IF "condition" \in DOMAIN entry
                                  THEN Str(entry.condition) ELSE None)
C14_Witness ==
    /\ pc = "returned"
    /\ workflow_config = Omitted
    /\ Len(nodes) = 3
    /\ Len(nodes[1].connections) = 2
    /\ \E k \in 1..Len(decisions) :
           decisions[k].follow /\ decisions[k].target = "n2"

\* the id of the first entry of type trigger in the document
FirstTriggerId ==
    LET entries == nodes_config(workflow_config)
        first   == CHOOSE i \in 1..Len(entries) :
                       /\ entries[i].type = "trigger"
                       /\ \A j \in 1..(i - 1) : entries[j].type # "trigger"
    IN  entries[first].id
TriggerCount ==
    Cardinality({i \in 1..Len(nodes_config(workflow_config)) :
                     nodes_config(workflow_config)[i].type = "trigger"})

\* C15: with several triggers declared, the traversal starts at the one
\* declared first; any other node, a further trigger included, is executed only
\* by a call made for a followed connection that targets it.
C15_FirstTrigger ==
    (TriggerCount > 1 /\ executed # <<>>) =>
        /\ executed[1] = [cid |-> 1, node |-> FirstTriggerId]
        /\ \A k \in 2..Len(executed) :
               /\ executed[k].cid > 1
               /\ \E d \in 1..Len(decisions) :
                      /\ decisions[d].follow
                      /\ decisions[d].target = executed[k].node
C15_Witness ==
    /\ pc = "returned"
    /\ workflow_config = TwoTriggers
    /\ executed[1].node = "n2"
    /\ \E k \in 2..Len(executed) : executed[k].node = "n3"
    /\ result["action"] = "reject"

\* how often the node was executed
Runs(id) == Cardinality({k \in 1..Len(executed) : executed[k].node = id})

\* C16: cycle detection is per branch: a call is turned back by the guard only
\* on a node of its own chain of calls, never for a node executed in a sibling
\* branch; in the diamond A->B, A->C, B->D, C->D the node D is executed once per
\* incoming branch.
C16_PerBranch ==
    /\ Revisit =>
           \E f \in 1..(Len(stack) - 1) :
               stack[f].phase = "loop" /\ stack[f].node = Top.node
    /\ (pc = "returned" /\ workflow_config = Diamond) =>
           /\ [k \in 1..Len(executed) |-> executed[k].node]
                  = <<"n1", "n2", "n4", "n3", "n4">>
           /\ calls = 5
C16_Witness ==
    /\ pc = "returned"
    /\ workflow_config = Diamond
    /\ Runs("n4") = 2
    /\ Runs("n2") = 1
    /\ Runs("n3") = 1

MessageKeys ==
    {"from", "to", "subject", "date", "message_id", "body", "size", "headers", "timestamp"}
\* the record the traversal holds at this moment
Current ==
    IF pc = "running" THEN Top.result
    ELSE IF pc = "returned" THEN result
    ELSE email_data
\* the attributes a node of this kind may write
Owned(node) ==
    CASE node.node_type = "trigger" -> {}
      [] node.node_type = "filter" -> {"filter_results", "filter_passed"}
      [] node.node_type = "action" ->
             LET action_type == Get(node.config, "action_type")
             IN  CASE action_type = Str("reject") -> {"action", "reject_reason"}
                   [] action_type = Str("quarantine") -> {"action", "quarantine_folder"}
                   [] action_type = Str("forward") -> {"action", "forward_to"}
                   [] action_type = Str("modify_headers") ->
                          {"action", "header_modifications"}
                   [] action_type = Str("tag") -> {"action", "tags"}
                   [] OTHER -> {"action"}
\* the innermost call is about to execute its node
AboutToExecute ==
    /\ pc = "running"
    /\ Top.phase = "call"
    /\ Top.node \notin Top.visited

\* C17: over a traversal the attribute names of the threaded record never
\* shrink and the message attributes keep their values; executing a Trigger
\* changes nothing, a Filter writes filter_results and filter_passed only, an
\* Action writes action and its payload attribute only.
C17_FrameEffect ==
    [][/\ HasTrigger(nodes) =>
            /\ DOMAIN Current \subseteq DOMAIN Current'
            /\ \A k \in MessageKeys : Current'[k] = email_data[k]
       /\ AboutToExecute =>
            LET before == Top.data
                after  == Last(stack').result
                owned  == Owned(TopNode)
            IN  /\ DOMAIN before \subseteq DOMAIN after
                /\ DOMAIN after \subseteq DOMAIN before \cup owned
                /\ \A k \in DOMAIN before \ owned : after[k] = before[k]]_vars
C17_Witness ==
    /\ pc = "returned"
    /\ workflow_config = Payloads
    /\ {"forward_to", "header_modifications", "filter_passed", "filter_results",
        "action"} \subseteq DOMAIN result
    /\ MessageKeys \subseteq DOMAIN result
    /\ result["action"] = "forward"

\* the call f of the chain has decided connection c and followed it
Followed(f, c) ==
    \E d \in 1..Len(decisions) :
        /\ decisions[d].cid = stack[f].cid
        /\ decisions[d].i = c
        /\ decisions[d].follow

\* C18: an Action node whose action_type is none of the six known ones returns
\* a record equal to its input - no action is added, an earlier action is kept -
\* and its connections are decided and followed like those of any node.
C18_UnrecognizedAction ==
    [][/\ (AboutToExecute /\ TopNode.node_type = "action" /\ ~Recognized(TopNode)) =>
            Last(stack').result = Top.data
       /\ \A f \in 1..Len(stack) :
            LET node == NodeOf(nodes, stack[f].node)
            IN  (stack[f].phase = "loop" /\ node.node_type = "action"
                    /\ ~Recognized(node)) =>
                    \A c \in 1..(stack[f].i - 1) :
                        ~Truthy(node.connections[c].condition) => Followed(f, c)]_vars
C18_Witness ==
    /\ pc = "returned"
    /\ workflow_config = Unrecognized
    /\ RanNode("n3")
    /\ RanNode("n4")
    /\ RanNode("n5")
    /\ result["action"] = "reject"

\* the ids of the nodes of the calls below call f of the chain
Ancestors(f) == {stack[g].node : g \in 1..(f - 1)}

\* C19: the visited set a call of _execute_node receives is the set of the ids
\* of the nodes of the calls it is nested in, which are all different; once the
\* call has passed the guard its own id is added; the chain of calls is never
\* longer than the number of nodes plus one.
C19_VisitedIsChain ==
    /\ \A f \in 1..Len(stack) :
           /\ Cardinality(Ancestors(f)) = f - 1
           /\ stack[f].phase = "call" => stack[f].visited = Ancestors(f)
           /\ stack[f].phase = "loop" =>
                  stack[f].visited = Ancestors(f) \cup {stack[f].node}
    /\ Len(stack) <= Len(nodes) + 1
C19_Witness ==
    /\ Revisit
    /\ workflow_config = Ring
    /\ Len(stack) = Len(nodes) + 1
    /\ Top.visited = {"n1", "n2", "n3", "n4"}

KnownOperators ==
    {"equals", "contains", "starts_with", "ends_with", "regex", "not_equals",
     "not_contains", "greater_than", "less_than"}
\* the text is an optional sign and decimal digits
Numeric(text) ==
    \E k \in 0..1 :
        /\ Len(text) > k
        /\ k = 1 => text[1] \in {"+", "-"}
        /\ \A i \in (k + 1)..Len(text) : text[i] \in {DigitChars[d] : d \in 1..10}
\* the pattern ends in an open group, an open class or a lone backslash
Uncompilable(pattern) ==
    /\ pattern # <<>>
    /\ pattern[Len(pattern)] \in {"(", "[", "\\"}
\* evaluating the condition meets a fault
Faulty(field_value, operator, value) ==
    /\ operator.py = "str"
    /\ operator.v \in KnownOperators
    /\ \/ value = None
       \/ /\ operator.v \in {"greater_than", "less_than"}
          /\ ~Numeric(field_value) \/ ~Numeric(value.v)
       \/ /\ operator.v = "regex"
          /\ Uncompilable(value.v)

\* C20: every condition of an executed Filter node has a boolean result; an
\* unknown or missing operator gives false; a fault of the evaluation - a field
\* or a comparison value that is no number under greater_than or less_than, a
\* regex that does not compile, a missing comparison value - gives false, so a
\* field that is no number is neither greater nor less than anything.
C20_FaultsAreFalse ==
    FilterJustRan =>
        \A i \in 1..Len(Top.result["filter_results"]) :
            LET r == Top.result["filter_results"][i]
                field_value == get_field_value(Top.data, r.field)
            IN  /\ r.result \in BOOLEAN
                /\ (r.operator = None \/ r.operator.v \notin KnownOperators) => ~r.result
                /\ Faulty(field_value, r.operator, r.value) => ~r.result
C20_Witness ==
    /\ FilterJustRan
    /\ workflow_config \in FaultConfigs
    /\ Top.data.subject = <<"h", "e", "l", "l", "o">>
    /\ Top.result["filter_results"][1].operator = Str("less_than")
    /\ Top.result["filter_results"][1].field = Str("subject")
    /\ ~Top.result["filter_results"][1].result
    /\ ~Top.result["filter_passed"]

====
